---- MODULE Spec2Model ----
(***************************************************************************)
(* A model of the 6502 emulator of cpuemu.cpp: the memory image (MEM), the *)
(* processor (CPU) with its fetch/read primitives, the instruction loop    *)
(* CPU::Exec, and the driver main().                                       *)
(*                                                                         *)
(* One step of the model is one call of Reset, one run of the loader, one  *)
(* entry into Exec, one iteration of Exec's while loop (opcode fetch and   *)
(* the whole case of the switch), or the exit of the loop.                 *)
(*                                                                         *)
(* Spec is the run of main() from Reset; SpecAny starts Exec from any      *)
(* register, flag and memory content; SpecDeep continues a run of main()   *)
(* that has taken the stack pointer to the end of memory; SpecPrim calls   *)
(* the fetch, read and write primitives on their own.                      *)
(***************************************************************************)
EXTENDS Integers, Sequences, FiniteSets, TLC

VARIABLES
    PC, SP,                 \* Word PC, SP
    A, X, Y,                \* Byte A, X, Y
    C, Z, I, D, B, V, N,    \* the seven one-bit status flags
    Data,                   \* MEM::Data, kept as the map of its non-zero bytes
    cycles,                 \* the uint32 parameter of Exec, as two 16-bit halves
    instruction,            \* the local `instruction` of Exec
    out,                    \* what printf has written to stdout
    phase,                  \* where main() is: "reset", "loaded", "exec", "returned"
    budget,                 \* the value Exec was called with
    steps,                  \* iterations of the while loop in the current call
    nExec,                  \* calls of Exec so far
    touched,                \* the indices of Data the last step read or wrote
    calls                   \* the primitives called on their own, with their results

cpu  == <<PC, SP, A, X, Y, C, Z, I, D, B, V, N>>
vars == <<PC, SP, A, X, Y, C, Z, I, D, B, V, N, Data, cycles, instruction,
          out, phase, budget, steps, nExec, touched, calls>>

-----------------------------------------------------------------------------
(* Program constants *)

MAX_MEM     == 65536
INS_LDA_IMM == 169
INS_LDA_ZP  == 165
INS_LDA_ZPX == 181
INS_JSR     == 32

ByteMod == 256          \* values of an unsigned char
WordMod == 65536        \* values of an unsigned short

(* Bounds of the exploration *)

MaxSteps == 3           \* loop iterations explored per call of Exec
MaxExecs == 2           \* calls of Exec explored per run

-----------------------------------------------------------------------------
(* unsigned int (32 bits), as the record [hi, lo] of its 16-bit halves:   *)
(* the value is hi * 65536 + lo.                                           *)

U32(n) == [hi |-> n \div WordMod, lo |-> n % WordMod]

U32Zero == U32(0)

\* c - n in unsigned 32-bit arithmetic, for 0 <= n < 65536: wraps below zero.
U32Sub(c, n) ==
    IF c.lo >= n
    THEN [hi |-> c.hi, lo |-> c.lo - n]
    ELSE [hi |-> (c.hi + WordMod - 1) % WordMod, lo |-> c.lo + WordMod - n]

-----------------------------------------------------------------------------
(* MEM *)

\* A memory image whose bytes are all 0.
ZeroMem == [a \in {} |-> 0]

\* MEM::Init with the last byte left as it was (the loop stopping one short).
MemInit_short(mem) == [a \in (DOMAIN mem) \cap {MAX_MEM - 1} |-> mem[a]]

\* MEM::Init: Data after the loop over i < MAX_MEM, whatever it held before.
MemInit(mem) == ZeroMem

\* Byte operator[](uint32 address) const
MemRead(mem, address) ==
    IF address \in DOMAIN mem THEN mem[address] ELSE 0

\* Byte& operator[](uint32 address), assigned through: Data[address] = val
MemStore(mem, address, val) ==
    IF val = 0
    THEN [a \in (DOMAIN mem) \ {address} |-> mem[a]]
    ELSE [a \in (DOMAIN mem) \cup {address} |->
             IF a = address THEN val ELSE mem[a]]

\* MEM::WriteWord charging one cycle for the two bytes.
WriteWord_oneCycle(cyc, mem, address, val) ==
    LET lo  == val % ByteMod
        hi  == val \div ByteMod
        m1  == MemStore(mem, address, lo)
    IN  [ Data   |-> IF address + 1 < MAX_MEM
                     THEN MemStore(m1, address + 1, hi) ELSE m1,
          stray  |-> ~(address + 1 < MAX_MEM),
          byte   |-> hi,
          used   |-> {address, address + 1},
          cycles |-> U32Sub(cyc, 1) ]

\* MEM::WriteWord storing the high byte first.
WriteWord_bigEndian(cyc, mem, address, val) ==
    LET lo  == val % ByteMod
        hi  == val \div ByteMod
        m1  == MemStore(mem, address, hi)
    IN  [ Data   |-> IF address + 1 < MAX_MEM
                     THEN MemStore(m1, address + 1, lo) ELSE m1,
          stray  |-> ~(address + 1 < MAX_MEM),
          byte   |-> lo,
          used   |-> {address, address + 1},
          cycles |-> U32Sub(cyc, 2) ]

\* MEM::WriteWord storing the high byte one place further up.
WriteWord_gap(cyc, mem, address, val) ==
    LET lo  == val % ByteMod
        hi  == val \div ByteMod
        m1  == MemStore(mem, address, lo)
    IN  [ Data   |-> IF address + 2 < MAX_MEM
                     THEN MemStore(m1, address + 2, hi) ELSE m1,
          stray  |-> ~(address + 2 < MAX_MEM),
          byte   |-> hi,
          used   |-> {address, address + 2},
          cycles |-> U32Sub(cyc, 2) ]

\* MEM::WriteWord. Data[address] is in the array for every 16-bit address;
\* Data[address+1] is not when address = 0xFFFF: that byte is then stored
\* past the end of the array, and `stray` tells it happened.
WriteWord(cyc, mem, address, val) ==
    LET lo  == val % ByteMod
        hi  == val \div ByteMod
        m1  == MemStore(mem, address, lo)
    IN  [ Data   |-> IF address + 1 < MAX_MEM
                     THEN MemStore(m1, address + 1, hi) ELSE m1,
          stray  |-> ~(address + 1 < MAX_MEM),
          byte   |-> hi,
          used   |-> {address, address + 1},
          cycles |-> U32Sub(cyc, 2) ]

-----------------------------------------------------------------------------
(* CPU primitives *)

\* CPU::FetchByte giving up, without reading or advancing, once the budget
\* is used up.
FetchByte_budgeted(pc, cyc, mem) ==
    IF cyc = U32Zero
    THEN [ data |-> 0, PC |-> pc, used |-> {}, cycles |-> cyc ]
    ELSE [ data   |-> MemRead(mem, pc),
           PC     |-> (pc + 1) % WordMod,
           used   |-> {pc},
           cycles |-> U32Sub(cyc, 1) ]

\* CPU::FetchByte
FetchByte(pc, cyc, mem) ==
    [ data   |-> MemRead(mem, pc),
      PC     |-> (pc + 1) % WordMod,
      used   |-> {pc},
      cycles |-> U32Sub(cyc, 1) ]

\* CPU::FetchWord without its second PC++.
FetchWord_onePC(pc, cyc, mem) ==
    LET pc1 == (pc + 1) % WordMod
    IN  [ data   |-> MemRead(mem, pc) + ByteMod * MemRead(mem, pc1),
          PC     |-> pc1,
          used   |-> {pc, pc1},
          cycles |-> U32Sub(cyc, 2) ]

\* CPU::FetchWord taking the first byte as the high one.
FetchWord_bigEndian(pc, cyc, mem) ==
    LET pc1 == (pc + 1) % WordMod
    IN  [ data   |-> ByteMod * MemRead(mem, pc) + MemRead(mem, pc1),
          PC     |-> (pc1 + 1) % WordMod,
          used   |-> {pc, pc1},
          cycles |-> U32Sub(cyc, 2) ]

\* CPU::FetchWord
FetchWord(pc, cyc, mem) ==
    LET pc1 == (pc + 1) % WordMod
    IN  [ data   |-> MemRead(mem, pc) + ByteMod * MemRead(mem, pc1),
          PC     |-> (pc1 + 1) % WordMod,
          used   |-> {pc, pc1},
          cycles |-> U32Sub(cyc, 2) ]

\* CPU::ReadByte without its cycles--.
ReadByte_free(cyc, address, mem) ==
    [ data   |-> MemRead(mem, address % ByteMod),
      used   |-> {address % ByteMod},
      cycles |-> cyc ]

\* CPU::ReadByte taking its address as a 16-bit Word.
ReadByte_wide(cyc, address, mem) ==
    [ data   |-> MemRead(mem, address),
      used   |-> {address},
      cycles |-> U32Sub(cyc, 1) ]

\* CPU::ReadByte: the address parameter is a Byte, so the argument is
\* converted to 8 bits on the way in.
ReadByte(cyc, address, mem) ==
    [ data   |-> MemRead(mem, address % ByteMod),
      used   |-> {address % ByteMod},
      cycles |-> U32Sub(cyc, 1) ]

\* CPU::LDA_set_status: the values of Z and N for accumulator a.
StatusZ_nonzero(a) == IF a # 0 THEN 1 ELSE 0        \* (A != 0)
StatusZ(a) == IF a = 0 THEN 1 ELSE 0
StatusN_above(a) == IF a > 128 THEN 1 ELSE 0      \* (A > 0b10000000)
StatusN(a) == IF (a \div 128) % 2 = 1 THEN 1 ELSE 0

\* CPU::LDA_set_status, as the pair of flags it assigns.
LDA_set_status(a) == [Z |-> StatusZ(a), N |-> StatusN(a)]

-----------------------------------------------------------------------------
(* CPU::Reset *)

Reset ==
    /\ phase # "exec"
    /\ PC' = 65532                      \* 0xFFFC
    /\ SP' = 256                        \* 0x0100
    /\ C' = 0 /\ Z' = 0 /\ I' = 0 /\ D' = 0 /\ B' = 0 /\ V' = 0 /\ N' = 0
    /\ A' = 0 /\ X' = 0 /\ Y' = 0
    /\ Data' = MemInit(Data)
    /\ phase' = "reset"
    /\ touched' = {}
    /\ UNCHANGED <<cycles, instruction, out, budget, steps, nExec, calls>>

-----------------------------------------------------------------------------
(* main(): the loader.  A program image is the sequence of assignments    *)
(* mem[address] = value that main() makes between Reset and Exec.         *)

\* 0xFFFC: JSR 0x4242;  0x4242: LDA #0x84   (the image main() hardcodes)
MainProgram ==
    << <<65532, 32>>, <<65533, 66>>, <<65534, 66>>,
       <<16962, 169>>, <<16963, 132>> >>

\* 0xFFFC: LDA 0x84 (zero page);  0xFFFE: LDA #0x00;  mem[0x84] = 0x80
ZeroPageProgram ==
    << <<65532, 165>>, <<65533, 132>>, <<65534, 169>>, <<65535, 0>>,
       <<132, 128>> >>

\* 0xFFFC: LDA 0x42,X;  0xFFFE: an opcode that is no instruction (0xEA);
\* mem[0x42] = 0x7F
IndexedProgram ==
    << <<65532, 181>>, <<65533, 66>>, <<65534, 234>>, <<66, 127>> >>

\* 0xFFFC: 0xFF (no instruction);  0xFFFD: LDA #0x00;  0xFFFF: LDA #0x01,
\* whose operand is fetched at 0x0000 after the program counter wraps
UnknownProgram ==
    << <<65532, 255>>, <<65533, 169>>, <<65534, 0>>, <<65535, 169>>,
       <<0, 1>> >>

\* 0xFFFC: JSR 0x4242;  0x4242: JSR 0xFFFC  (two subroutine calls in a row)
CallProgram ==
    << <<65532, 32>>, <<65533, 66>>, <<65534, 66>>,
       <<16962, 32>>, <<16963, 252>>, <<16964, 255>> >>

Programs ==
    {MainProgram, ZeroPageProgram, IndexedProgram, UnknownProgram, CallProgram}

\* The assignments of an image, applied in order.
RECURSIVE Pokes(_, _)
Pokes(mem, img) ==
    IF img = <<>> THEN mem
    ELSE Pokes(MemStore(mem, Head(img)[1], Head(img)[2]), Tail(img))

LoadProgram(img) ==
    /\ phase = "reset"
    /\ Data' = Pokes(Data, img)
    /\ phase' = "loaded"
    /\ touched' = {}
    /\ UNCHANGED <<cpu, cycles, instruction, out, budget, steps, nExec, calls>>

-----------------------------------------------------------------------------
(* CPU::Exec *)

\* The budgets Exec is called with.
Budgets == {1, 2, 6, 8}

\* main() calls cpu.Exec(c, mem): the parameter `cycles` starts as c.
ExecCall(c) ==
    /\ phase # "exec"
    /\ nExec < MaxExecs
    /\ cycles' = U32(c)
    /\ budget' = c
    /\ steps' = 0
    /\ nExec' = nExec + 1
    /\ phase' = "exec"
    /\ touched' = {}
    /\ UNCHANGED <<cpu, Data, instruction, out, calls>>

\* while (cycles > 0): the test that lets one more iteration start.
LoopTest == phase = "exec" /\ cycles # U32Zero /\ steps < MaxSteps

\* The test fails: Exec returns to main().
ExecReturn ==
    /\ phase = "exec"
    /\ cycles = U32Zero
    /\ phase' = "returned"
    /\ UNCHANGED <<cpu, Data, cycles, instruction, out, budget, steps, nExec,
                   touched, calls>>

\* case INS_LDA_IMM loading the X register instead of the accumulator.
LDA_IMM_intoX ==
    /\ LoopTest
    /\ LET f == FetchByte(PC, cycles, Data) IN
       /\ f.data = INS_LDA_IMM
       /\ LET val == FetchByte(f.PC, f.cycles, Data) IN
          /\ instruction' = f.data
          /\ X' = val.data
          /\ Z' = LDA_set_status(val.data).Z
          /\ N' = LDA_set_status(val.data).N
          /\ PC' = val.PC
          /\ cycles' = val.cycles
          /\ touched' = f.used \cup val.used
    /\ steps' = steps + 1
    /\ UNCHANGED <<SP, A, Y, C, I, D, B, V, Data, out, phase, budget, nExec, calls>>

\* case INS_LDA_IMM
LDA_IMM ==
    /\ LoopTest
    /\ LET f == FetchByte(PC, cycles, Data) IN
       /\ f.data = INS_LDA_IMM
       /\ LET val == FetchByte(f.PC, f.cycles, Data) IN
          /\ instruction' = f.data
          /\ A' = val.data
          /\ Z' = LDA_set_status(val.data).Z
          /\ N' = LDA_set_status(val.data).N
          /\ PC' = val.PC
          /\ cycles' = val.cycles
          /\ touched' = f.used \cup val.used
    /\ steps' = steps + 1
    /\ UNCHANGED <<SP, X, Y, C, I, D, B, V, Data, out, phase, budget, nExec, calls>>

\* case INS_LDA_ZP
LDA_ZP ==
    /\ LoopTest
    /\ LET f == FetchByte(PC, cycles, Data) IN
       /\ f.data = INS_LDA_ZP
       /\ LET zeropageaddr == FetchByte(f.PC, f.cycles, Data)
              r == ReadByte(zeropageaddr.cycles, zeropageaddr.data, Data)
          IN
          /\ instruction' = f.data
          /\ A' = r.data
          /\ Z' = LDA_set_status(r.data).Z
          /\ N' = LDA_set_status(r.data).N
          /\ PC' = zeropageaddr.PC
          /\ cycles' = r.cycles
          /\ touched' = f.used \cup zeropageaddr.used \cup r.used
    /\ steps' = steps + 1
    /\ UNCHANGED <<SP, X, Y, C, I, D, B, V, Data, out, phase, budget, nExec, calls>>

\* The addition of X left out.
AddX_forgotten(zeropageaddr, x) == zeropageaddr

\* zeropageaddr += X, on a Byte
AddX(zeropageaddr, x) == (zeropageaddr + x) % ByteMod

\* case INS_LDA_ZPX
LDA_ZPX ==
    /\ LoopTest
    /\ LET f == FetchByte(PC, cycles, Data) IN
       /\ f.data = INS_LDA_ZPX
       /\ LET zeropageaddr == FetchByte(f.PC, f.cycles, Data)
              r == ReadByte(U32Sub(zeropageaddr.cycles, 1),
                            AddX(zeropageaddr.data, X), Data)
          IN
          /\ instruction' = f.data
          /\ A' = r.data
          /\ Z' = LDA_set_status(r.data).Z
          /\ N' = LDA_set_status(r.data).N
          /\ PC' = zeropageaddr.PC
          /\ cycles' = r.cycles
          /\ touched' = f.used \cup zeropageaddr.used \cup r.used
    /\ steps' = steps + 1
    /\ UNCHANGED <<SP, X, Y, C, I, D, B, V, Data, out, phase, budget, nExec, calls>>

\* Where the byte that WriteWord stores past the end of Data, one byte after
\* the MEM object, can land: on nothing the program reads again, or on the
\* first byte of the CPU object main() declares next to the memory image,
\* which is the low byte of PC.
StrayTargets == {"none", "PC"}

\* Bit k of a byte, the flags being packed from bit 0 in declaration order.
Bit(byte, k) == (byte \div (2 ^ k)) % 2

\* case INS_JSR
JSR ==
    /\ LoopTest
    /\ LET f == FetchByte(PC, cycles, Data) IN
       /\ f.data = INS_JSR
       /\ LET subaddr == FetchWord(f.PC, f.cycles, Data)
              w == WriteWord(subaddr.cycles, Data, SP,
                             (subaddr.PC + WordMod - 1) % WordMod)
          IN
          \E t \in (IF w.stray THEN StrayTargets ELSE {"none"}) :
             \* PC as WriteWord leaves it; `PC = subaddr` then replaces it whole
             LET pc == IF t = "PC"
                       THEN (subaddr.PC \div ByteMod) * ByteMod + w.byte
                       ELSE subaddr.PC
             IN
             /\ instruction' = f.data
             /\ Data' = w.Data
             /\ SP' = (SP + 1) % WordMod
             /\ PC' = subaddr.data
             /\ cycles' = U32Sub(w.cycles, 1)
             /\ touched' = f.used \cup subaddr.used \cup w.used
    /\ steps' = steps + 1
    /\ UNCHANGED <<A, X, Y, C, Z, I, D, B, V, N, out, phase, budget, nExec, calls>>

\* printf(format, args...): the report that reaches stdout, as the format
\* string and the values handed over for its conversions.
printf(format, args) == [format |-> format, args |-> args]

\* The opcodes the switch has a case for.
Known == {INS_LDA_IMM, INS_LDA_ZP, INS_LDA_ZPX, INS_JSR}

\* default: ending the run at the first opcode that is no instruction.
Unclear_halt ==
    /\ LoopTest
    /\ LET f == FetchByte(PC, cycles, Data) IN
       /\ f.data \notin Known
       /\ instruction' = f.data
       /\ PC' = f.PC
       /\ cycles' = U32Zero
       /\ touched' = f.used
    /\ out' = Append(out, printf("INSTRUCTION UNCLEAR!\n", <<>>))
    /\ steps' = steps + 1
    /\ UNCHANGED <<SP, A, X, Y, C, Z, I, D, B, V, N, Data, phase, budget, nExec, calls>>

\* default:
Unclear ==
    /\ LoopTest
    /\ LET f == FetchByte(PC, cycles, Data) IN
       /\ f.data \notin Known
       /\ instruction' = f.data
       /\ PC' = f.PC
       /\ cycles' = f.cycles
       /\ touched' = f.used
    /\ out' = Append(out, printf("INSTRUCTION UNCLEAR!\n", <<>>))
    /\ steps' = steps + 1
    /\ UNCHANGED <<SP, A, X, Y, C, Z, I, D, B, V, N, Data, phase, budget, nExec, calls>>

-----------------------------------------------------------------------------
(* The run of main(): Reset, the loader, then Exec. *)

\* No primitive has been called on its own.
NoCall == <<>>

Init ==
    /\ PC = 65532 /\ SP = 256
    /\ A = 0 /\ X = 0 /\ Y = 0
    /\ C = 0 /\ Z = 0 /\ I = 0 /\ D = 0 /\ B = 0 /\ V = 0 /\ N = 0
    /\ Data = MemInit(ZeroMem)
    /\ cycles = U32Zero
    /\ instruction = 0
    /\ out = <<>>
    /\ phase = "reset"
    /\ budget = 0
    /\ steps = 0
    /\ nExec = 0
    /\ touched = {}
    /\ calls = NoCall

Next ==
    \/ Reset
    \/ \E img \in Programs : LoadProgram(img)
    \/ \E c \in Budgets : ExecCall(c)
    \/ LDA_IMM
    \/ LDA_ZP
    \/ LDA_ZPX
    \/ JSR
    \/ Unclear
    \/ ExecReturn

Spec == Init /\ [][Next]_vars

-----------------------------------------------------------------------------
(* The instructions from any processor state and memory content: the      *)
(* runs that start with some program loaded, the registers and flags      *)
(* holding any values, and Exec about to be called.                        *)

\* A memory content in which every byte value occurs in the zero page, and
\* the byte at 0x100 + a differs from the byte at a.
PatternByte(a) == IF a < ByteMod THEN (a + 1) % ByteMod ELSE (a + 129) % ByteMod

PatternImage ==
    [a \in {k \in 0 .. (2 * ByteMod - 1) : PatternByte(k) # 0} |-> PatternByte(a)]

AllBytes == 0 .. (ByteMod - 1)

\* LDA #v for every byte v.
ImmInputs ==
    [pc : {16962}, sp : {256}, a : {132}, x : {0}, y : {7}, fl : {0, 127},
     op : {INS_LDA_IMM}, b1 : AllBytes, b2 : {0}]

\* LDA zp for every operand byte.
ZeroPageInputs ==
    [pc : {16962}, sp : {256}, a : {132}, x : {32}, y : {7}, fl : {0, 127},
     op : {INS_LDA_ZP}, b1 : AllBytes, b2 : {0}]

\* LDA zp,X for every operand byte and for every value of X.
IndexedInputs ==
    [pc : {16962}, sp : {256}, a : {132}, x : {1, 32, 255}, y : {7},
     fl : {0, 127}, op : {INS_LDA_ZPX}, b1 : AllBytes, b2 : {0}]
    \cup
    [pc : {16962}, sp : {256}, a : {132}, x : AllBytes, y : {7},
     fl : {0}, op : {INS_LDA_ZPX}, b1 : {0, 240, 255}, b2 : {0}]

\* Every kind of opcode where the program counter or the stack pointer is
\* about to wrap, or the stack lies on the instruction itself.  (Each JSR
\* adds 1 to SP: 0xFFFF is where 65,279 of them take it from Reset, as the
\* run of SpecDeep below shows.)
EdgeInputs ==
    [pc : {16962, 65533, 65534, 65535},
     sp : {256, 16963, 65534, 65535},
     a : {132}, x : {32}, y : {7}, fl : {0, 85},
     op : Known \cup {0, 234, 255}, b1 : {0, 66, 240}, b2 : {66, 255}]

AnyInputs == ImmInputs \cup ZeroPageInputs \cup IndexedInputs \cup EdgeInputs

InitAny ==
    \E s \in AnyInputs :
        /\ PC = s.pc /\ SP = s.sp
        /\ A = s.a /\ X = s.x /\ Y = s.y
        /\ C = Bit(s.fl, 0) /\ Z = Bit(s.fl, 1) /\ I = Bit(s.fl, 2)
        /\ D = Bit(s.fl, 3) /\ B = Bit(s.fl, 4) /\ V = Bit(s.fl, 5)
        /\ N = Bit(s.fl, 6)
        /\ Data = Pokes(PatternImage,
                        << <<s.pc, s.op>>,
                           <<(s.pc + 1) % WordMod, s.b1>>,
                           <<(s.pc + 2) % WordMod, s.b2>> >>)
        /\ cycles = U32Zero
        /\ instruction = 0
        /\ out = <<>>
        /\ phase = "loaded"
        /\ budget = 0
        /\ steps = 0
        /\ nExec = 0
        /\ touched = {}
        /\ calls = NoCall

SpecAny == InitAny /\ [][Next]_vars

-----------------------------------------------------------------------------
(* A long run of main(): the stack pointer, which every JSR moves up by    *)
(* one, close to the end of the memory image.                              *)

\* 0x00FE: JSR 0x00FE.  The third byte of the instruction is mem[0x0100],
\* which stays 0: the first push writes 0x00 there (the low byte of 0x0100)
\* and every later push lies above it.
LoopProgram == << <<254, 32>>, <<255, 254>> >>

\* The state in which Exec(391926, mem) returns when called after Reset and
\* the loading of LoopProgram: the 258 bytes from 0xFFFC round to 0x00FD are
\* no instruction (one cycle and one report each), then the JSR runs 65,278
\* times (6 cycles each), the last time with SP = 0xFFFD, leaving the high
\* byte 0x01 of its return address 0x0100 at 0xFFFE.
InitDeep ==
    /\ PC = 254 /\ SP = 65534
    /\ A = 0 /\ X = 0 /\ Y = 0
    /\ C = 0 /\ Z = 0 /\ I = 0 /\ D = 0 /\ B = 0 /\ V = 0 /\ N = 0
    /\ Data = MemStore(Pokes(MemInit(ZeroMem), LoopProgram), 65534, 1)
    /\ cycles = U32Zero
    /\ instruction = INS_JSR
    /\ out = [k \in 1 .. 258 |-> printf("INSTRUCTION UNCLEAR!\n", <<>>)]
    /\ phase = "returned"
    /\ budget = 391926
    /\ steps = 258 + 65278
    /\ nExec = 1
    /\ touched = {254, 255, 256, 65533, 65534}
    /\ calls = NoCall

SpecDeep == InitDeep /\ [][Next]_vars

-----------------------------------------------------------------------------
(* The primitives called on their own, one after the other, on any         *)
(* processor state and memory content.                                     *)

MaxCalls == 2           \* calls explored per run

\* The addresses handed to ReadByte: in the zero page and above it.
ReadAddresses == {0, 66, 255, 256, 322, 65535}

\* The addresses handed to WriteWord, next to the program counter itself.
WriteAddresses == {255, 65534}

\* The values handed to WriteWord.
WriteValues == {0, 255, 4660, 65280, 65535}

\* The record of one call: the program counter it found, its arguments,
\* and the value it returned (0 for WriteWord, which returns none).
Call(fn, args, data) == [fn |-> fn, pc |-> PC, args |-> args, data |-> data]

CallFetchByte ==
    /\ Len(calls) < MaxCalls
    /\ LET f == FetchByte(PC, cycles, Data) IN
       /\ PC' = f.PC
       /\ cycles' = f.cycles
       /\ touched' = f.used
       /\ calls' = Append(calls, Call("FetchByte", <<>>, f.data))
    /\ UNCHANGED <<SP, A, X, Y, C, Z, I, D, B, V, N, Data, instruction, out,
                   phase, budget, steps, nExec>>

CallFetchWord ==
    /\ Len(calls) < MaxCalls
    /\ LET f == FetchWord(PC, cycles, Data) IN
       /\ PC' = f.PC
       /\ cycles' = f.cycles
       /\ touched' = f.used
       /\ calls' = Append(calls, Call("FetchWord", <<>>, f.data))
    /\ UNCHANGED <<SP, A, X, Y, C, Z, I, D, B, V, N, Data, instruction, out,
                   phase, budget, steps, nExec>>

CallReadByte(address) ==
    /\ Len(calls) < MaxCalls
    /\ LET r == ReadByte(cycles, address, Data) IN
       /\ cycles' = r.cycles
       /\ touched' = r.used
       /\ calls' = Append(calls, Call("ReadByte", <<address>>, r.data))
    /\ UNCHANGED <<cpu, Data, instruction, out, phase, budget, steps, nExec>>

CallWriteWord(address, val) ==
    /\ Len(calls) < MaxCalls
    /\ address + 1 < MAX_MEM
    /\ LET w == WriteWord(cycles, Data, address, val) IN
       /\ Data' = w.Data
       /\ cycles' = w.cycles
       /\ touched' = w.used
       /\ calls' = Append(calls, Call("WriteWord", <<address, val>>, 0))
    /\ UNCHANGED <<cpu, instruction, out, phase, budget, steps, nExec>>

\* The program counter at the ends of the memory image, inside the zero
\* page and in the middle; memory holding different bytes at a and 0x100 + a
\* and a word at the very end.
InitPrim ==
    /\ PC \in {0, 255, 16962, 65534, 65535}
    /\ SP = 256
    /\ A = 132 /\ X = 32 /\ Y = 7
    /\ C = 1 /\ Z = 0 /\ I = 1 /\ D = 0 /\ B = 1 /\ V = 0 /\ N = 1
    /\ Data = Pokes(PatternImage, << <<65534, 52>>, <<65535, 18>> >>)
    /\ cycles \in {U32(1), U32(8)}
    /\ instruction = 0
    /\ out = <<>>
    /\ phase = "loaded"
    /\ budget = 0
    /\ steps = 0
    /\ nExec = 0
    /\ touched = {}
    /\ calls = NoCall

NextPrim ==
    \/ CallFetchByte
    \/ CallFetchWord
    \/ \E address \in ReadAddresses : CallReadByte(address)
    \/ \E address \in WriteAddresses \cup {PC}, val \in WriteValues :
          CallWriteWord(address, val)

SpecPrim == InitPrim /\ [][NextPrim]_vars

-----------------------------------------------------------------------------
(* Vocabulary of the properties *)

\* The step is one iteration of Exec's loop.
Iteration == phase = "exec" /\ steps' = steps + 1

\* The opcode, and the bytes after it, of the instruction at the program counter.
Opcode   == MemRead(Data, PC)
Operand1 == MemRead(Data, (PC + 1) % WordMod)
Operand2 == MemRead(Data, (PC + 2) % WordMod)

\* c1 - c2 as a number, for budgets c1, c2 less than 65536 cycles apart.
U32Diff(c1, c2) ==
    ((c1.hi - c2.hi + WordMod) % WordMod) * WordMod + c1.lo - c2.lo

\* The cycles the step charges.
Spent == U32Diff(cycles, cycles')

\* The cycles charged so far in the current call of Exec.
Charged == U32Diff(U32(budget), cycles)

\* Memory holds every byte of the image.
ProgramIn(mem, img) ==
    \A k \in 1 .. Len(img) : MemRead(mem, img[k][1]) = img[k][2]

\* Exec has returned from the one call made since the program started.
FirstCallReturned == phase = "returned" /\ nExec = 1

-----------------------------------------------------------------------------
\* C1: from Reset, with main()'s five bytes in memory, Exec with a budget of
\* 8 returns after exactly two instructions (JSR, then LDA immediate) with
\* ProgramCounter = 0x4244, Accumulator = 0x84, Zero = 0, Negative = 1 and
\* no cycles left.
C1_EndToEnd ==
    (FirstCallReturned /\ budget = 8 /\ ProgramIn(Data, MainProgram)) =>
        /\ PC = 16964
        /\ A = 132
        /\ Z = 0
        /\ N = 1
        /\ cycles = U32Zero
        /\ Charged = 8
        /\ steps = 2
        /\ instruction = INS_LDA_IMM

C1_Witness ==
    /\ FirstCallReturned /\ budget = 8 /\ ProgramIn(Data, MainProgram)
    /\ steps = 2 /\ PC = 16964

\* C2: once the cycles charged reach the budget the loop is over, and Exec
\* returns having charged at least the budget and at most 5 cycles more.
C2_BoundedOverrun ==
    /\ (phase = "exec" /\ Charged >= budget) => cycles = U32Zero
    /\ phase = "returned" => (Charged >= budget /\ Charged <= budget + 5)

\* C3: an iteration charges exactly 2 cycles for LDA immediate, 3 for LDA
\* zero page, 4 for LDA zero page,X and 6 for JSR, whatever the operands,
\* registers, flags and memory.
C3_CycleAccounting ==
    [][Iteration =>
        /\ (Opcode = INS_LDA_IMM => Spent = 2)
        /\ (Opcode = INS_LDA_ZP  => Spent = 3)
        /\ (Opcode = INS_LDA_ZPX => Spent = 4)
        /\ (Opcode = INS_JSR     => Spent = 6)]_vars

C3_Witness ==
    /\ phase = "exec" /\ steps = 1 /\ budget = 8
    /\ instruction = INS_LDA_ZPX /\ X = 255
    /\ cycles = U32(4)

\* The flags as one tuple.
Flags == <<C, Z, I, D, B, V, N>>

\* C4: whatever the processor and the memory held, after Reset
\* ProgramCounter = 0xFFFC, StackPointer = 0x0100, the three registers and
\* the seven flags are 0 and each of the 65,536 bytes of memory is 0; Reset
\* charges no cycles, and a second Reset changes nothing.
C4_ResetDeterminism ==
    /\ [](phase = "reset" =>
            /\ PC = 65532 /\ SP = 256
            /\ A = 0 /\ X = 0 /\ Y = 0
            /\ Flags = <<0, 0, 0, 0, 0, 0, 0>>
            /\ \A a \in 0 .. (MAX_MEM - 1) : MemRead(Data, a) = 0)
    /\ [][phase' = "reset" =>
            /\ cycles' = cycles
            /\ (phase = "reset" => UNCHANGED <<cpu, Data>>)]_vars

\* Reset has run on a processor whose registers and flags were set and on a
\* memory that was not empty: the call of Exec before it left its traces.
C4_Witness ==
    /\ phase = "reset" /\ nExec = 1 /\ steps = 2
    /\ instruction = INS_LDA_IMM /\ budget = 8
    /\ PC = 65532 /\ SP = 256 /\ Y = 0 /\ Data = ZeroMem

\* C5: right after LDA immediate, LDA zero page or LDA zero page,X has put
\* byte v in the Accumulator, Zero is 1 exactly when v = 0 and Negative is 1
\* exactly when bit 7 of v is set, whatever the flags were before and
\* whichever of the three instructions it was.
C5_FlagCorrectness ==
    [][(Iteration /\ Opcode \in {INS_LDA_IMM, INS_LDA_ZP, INS_LDA_ZPX}) =>
        /\ A' \in AllBytes
        /\ Z' = (IF A' = 0 THEN 1 ELSE 0)
        /\ N' = (IF A' >= 128 THEN 1 ELSE 0)
        /\ (Opcode = INS_LDA_IMM => A' = Operand1)
        /\ (Opcode = INS_LDA_ZP  => A' = MemRead(Data, Operand1))]_vars

\* 0 has been loaded from the zero page by a processor that had all seven
\* flags set: Zero stays set and Negative is cleared.
C5_Witness ==
    /\ phase = "exec" /\ steps = 1 /\ instruction = INS_LDA_ZP
    /\ A = 0 /\ Z = 1 /\ N = 0
    /\ C = 1 /\ V = 1

\* C6: LDA zero page,X loads the Accumulator from memory[(b + x) mod 256],
\* b the operand byte and x IndexX: the sum never reaches page 1.
C6_ZeroPageXWraparound ==
    [][(Iteration /\ Opcode = INS_LDA_ZPX) =>
        A' = MemRead(Data, (Operand1 + X) % 256)]_vars

\* b = 0xF0, x = 0x20: the byte of address 0x10 is loaded, and the byte at
\* 0x110 is another one.
C6_Witness ==
    /\ phase = "exec" /\ steps = 1 /\ instruction = INS_LDA_ZPX
    /\ X = 32 /\ MemRead(Data, (PC + WordMod - 1) % WordMod) = 240
    /\ A = MemRead(Data, 16)
    /\ A # MemRead(Data, 272)

\* The return address a JSR at the program counter pushes: the address of
\* its third byte.
LastByteOfInstruction == (PC + 2) % WordMod

\* The 16-bit little-endian value at address a of memory mem.
WordAt(mem, a) == MemRead(mem, a) + ByteMod * MemRead(mem, a + 1)

\* C7, as the specification states it: after a JSR whose opcode is at P,
\* ProgramCounter = lo + 256 * hi and the 16-bit value at the address the
\* StackPointer held is (P + 2) - 1.
C7_ReturnAddressAsStated ==
    [][(Iteration /\ Opcode = INS_JSR) =>
        /\ PC' = Operand1 + ByteMod * Operand2
        /\ WordAt(Data', SP) = (PC + 2 - 1) % WordMod]_vars

\* C7, amended: after a JSR whose opcode is at P, ProgramCounter =
\* lo + 256 * hi and the 16-bit value pushed is (P + 2) mod 65536: its low
\* byte is at the address S the StackPointer held and, when S < 0xFFFF, its
\* high byte at S + 1.
C7_ReturnAddress ==
    [][(Iteration /\ Opcode = INS_JSR) =>
        /\ PC' = Operand1 + ByteMod * Operand2
        /\ MemRead(Data', SP) = LastByteOfInstruction % ByteMod
        /\ (SP < MAX_MEM - 1 =>
               WordAt(Data', SP) = LastByteOfInstruction)]_vars

\* main()'s JSR at 0xFFFC has run: 0xFFFE is on the stack at 0x0100.
C7_Witness ==
    /\ phase = "exec" /\ steps = 1 /\ instruction = INS_JSR
    /\ PC = 16962 /\ SP = 257
    /\ WordAt(Data, 256) = 65534

\* C8: the return address JSR pushes is the address of its own last byte;
\* its low byte is written at memory[S] and its high byte at memory[S + 1],
\* S the StackPointer before, and afterwards StackPointer = S + 1.
C8_PushProtocol ==
    [][(Iteration /\ Opcode = INS_JSR) =>
        /\ MemRead(Data', SP) = LastByteOfInstruction % ByteMod
        /\ MemRead(Data', SP + 1) = LastByteOfInstruction \div ByteMod
        /\ SP' = SP + 1]_vars

\* C9: an iteration that fetches an opcode the switch has no case for
\* changes no register, no flag and no byte of memory; it advances the
\* program counter by one, charges one cycle, prints one report, and leaves
\* the loop running.
C9_UnrecognizedOpcode ==
    [][(Iteration /\ Opcode \notin {INS_LDA_IMM, INS_LDA_ZP, INS_LDA_ZPX, INS_JSR}) =>
        /\ UNCHANGED <<A, X, Y, SP, Flags, Data>>
        /\ PC' = (PC + 1) % WordMod
        /\ PC' # PC
        /\ Spent = 1
        /\ Len(out') = Len(out) + 1
        /\ phase' = "exec"]_vars

\* Two bytes that are no instruction have been fetched one after the other
\* and the budget is not used up.
C9_Witness ==
    /\ phase = "exec" /\ steps = 2 /\ Len(out) = 2
    /\ instruction \notin Known
    /\ cycles = U32(6)
    /\ A = 132 /\ X = 32 /\ Y = 7

\* The cycles the instruction table gives each opcode (1 for a byte that is
\* no instruction: its fetch).
InstructionCost(op) ==
    CASE op = INS_LDA_IMM -> 2
      [] op = INS_LDA_ZP  -> 3
      [] op = INS_LDA_ZPX -> 4
      [] op = INS_JSR     -> 6
      [] OTHER            -> 1

\* The iteration starts with fewer cycles left than its instruction costs.
BudgetTooSmall == cycles.hi = 0 /\ cycles.lo < InstructionCost(Opcode)

\* C10: the budget is tested only before an opcode fetch: an instruction
\* whose opcode was fetched with fewer cycles left than it costs still has
\* all its effects (operand fetches, Accumulator and flags, stack write,
\* ProgramCounter, StackPointer), and Exec returns only between two
\* instructions, changing nothing as it does.
C10_InstructionsAtomic ==
    [][/\ (Iteration /\ BudgetTooSmall) =>
            /\ Opcode = INS_LDA_IMM =>
                  /\ A' = Operand1
                  /\ PC' = (PC + 2) % WordMod
                  /\ Z' = StatusZ(Operand1) /\ N' = StatusN(Operand1)
            /\ Opcode = INS_LDA_ZP =>
                  /\ A' = MemRead(Data, Operand1)
                  /\ PC' = (PC + 2) % WordMod
                  /\ Z' = StatusZ(A') /\ N' = StatusN(A')
            /\ Opcode = INS_LDA_ZPX =>
                  /\ A' = MemRead(Data, (Operand1 + X) % ByteMod)
                  /\ PC' = (PC + 2) % WordMod
                  /\ Z' = StatusZ(A') /\ N' = StatusN(A')
            /\ Opcode = INS_JSR =>
                  /\ PC' = Operand1 + ByteMod * Operand2
                  /\ MemRead(Data', SP) = LastByteOfInstruction % ByteMod
                  /\ (SP < MAX_MEM - 1 =>
                         /\ WordAt(Data', SP) = LastByteOfInstruction
                         /\ SP' = SP + 1)
            /\ phase' = "exec"
       /\ phase' = "returned" =>
            /\ phase = "exec" /\ cycles = U32Zero
            /\ UNCHANGED <<cpu, Data>>]_vars

\* main()'s JSR, which costs 6 cycles, has run to its end on a budget of 1.
C10_Witness ==
    /\ phase = "exec" /\ budget = 1 /\ steps = 1
    /\ instruction = INS_JSR
    /\ PC = 16962 /\ SP = 257 /\ WordAt(Data, 256) = 65534
    /\ ProgramIn(Data, MainProgram)

\* C11: every index of the memory image that FetchByte, FetchWord, ReadByte
\* and WriteWord read or write, the second byte of JSR's push at SP + 1
\* included, is in 0..65535.
C11_AccessesInRange == touched \subseteq 0 .. (MAX_MEM - 1)

\* The step is a call of primitive fn on its own.
Called(fn) ==
    /\ Len(calls') = Len(calls) + 1
    /\ calls'[Len(calls')].fn = fn

\* The call the step makes: its arguments and the value it returns.
ThisCall == calls'[Len(calls')]

\* The last call made.
LastCall == calls[Len(calls)]

\* C12, as the specification states it: for every address a in 0..65535,
\* ReadByte(budget, a, memory) returns memory[a], takes 1 off the budget and
\* changes nothing else.
C12_ReadByteAsStated ==
    [][Called("ReadByte") =>
        /\ ThisCall.data = MemRead(Data, ThisCall.args[1])
        /\ Spent = 1
        /\ UNCHANGED <<cpu, Data, out>>]_vars

\* C12, amended: for every address a in 0..65535, ReadByte(budget, a, memory)
\* returns memory[a mod 256], which is memory[a] for the zero page 0..255;
\* it takes 1 off the budget and changes nothing else.
C12_ReadByte ==
    [][Called("ReadByte") =>
        /\ ThisCall.data = MemRead(Data, ThisCall.args[1] % 256)
        /\ (ThisCall.args[1] < 256 =>
               ThisCall.data = MemRead(Data, ThisCall.args[1]))
        /\ Spent = 1
        /\ UNCHANGED <<cpu, Data, out>>]_vars

\* ReadByte was handed 0x0142 and returned the byte of 0x0042, which is not
\* the byte of 0x0142.
C12_Witness ==
    /\ calls # <<>>
    /\ LastCall.fn = "ReadByte" /\ LastCall.args = <<322>>
    /\ LastCall.data = MemRead(Data, 66)
    /\ LastCall.data # MemRead(Data, 322)

\* C13: for every program counter P in 0..65535, FetchWord returns
\* memory[P] + 256 * memory[(P + 1) mod 65536], leaves the program counter
\* at (P + 2) mod 65536, takes 2 off the budget and changes no byte of
\* memory, no register and no flag.
C13_FetchWord ==
    [][Called("FetchWord") =>
        /\ ThisCall.data =
              MemRead(Data, PC) + 256 * MemRead(Data, (PC + 1) % 65536)
        /\ PC' = (PC + 2) % 65536
        /\ Spent = 2
        /\ UNCHANGED <<SP, A, X, Y, Flags, Data, out>>]_vars

\* FetchWord was called with the program counter on the last byte of
\* memory: it returned 0x0112, the byte 0x12 of 0xFFFF and the byte 0x01
\* of 0x0000, and the program counter is 1.
C13_Witness ==
    /\ calls # <<>>
    /\ LastCall.fn = "FetchWord" /\ LastCall.pc = 65535
    /\ LastCall.data = 274
    /\ PC = 1

\* The report hands value v to its reader.
Carries(report, v) == \E k \in 1 .. Len(report.args) : report.args[k] = v

\* C14: an iteration that fetches an opcode the switch has no case for emits
\* exactly one report, and that report carries the opcode value and the
\* address the opcode was fetched at; an iteration that fetches one of the
\* four instructions emits none.
C14_ReportContent ==
    [][Iteration =>
        IF Opcode \in Known
        THEN out' = out
        ELSE /\ Len(out') = Len(out) + 1
             /\ SubSeq(out', 1, Len(out)) = out
             /\ Carries(out'[Len(out')], Opcode)
             /\ Carries(out'[Len(out')], PC)]_vars

\* Memory images mem1 and mem2 hold the same byte at every address outside
\* the set `except`.
SameBytes(mem1, mem2, except) ==
    \A a \in ((DOMAIN mem1) \cup (DOMAIN mem2)) \ except :
        MemRead(mem1, a) = MemRead(mem2, a)

\* C15: an iteration that executes one of the three LDA instructions or
\* fetches an opcode that is no instruction changes no byte of memory; one
\* that executes a JSR changes no byte other than those at S and S + 1, S
\* the StackPointer before it.
C15_MemoryFrame ==
    [][Iteration =>
        IF Opcode = INS_JSR
        THEN SameBytes(Data, Data', {SP, SP + 1})
        ELSE /\ SameBytes(Data, Data', {})
             /\ Data' = Data]_vars

\* A JSR at 0x4242 has pushed 0x4244 at 0x0100 and 0x0101, and the byte at
\* 0x0102 is the one the memory held before.
C15_Witness ==
    /\ phase = "exec" /\ steps = 1 /\ instruction = INS_JSR
    /\ SP = 257
    /\ MemRead(Data, 256) = 68 /\ MemRead(Data, 257) = 66
    /\ MemRead(Data, 258) = PatternByte(258)

\* The registers and flags no instruction writes.
Untouched == <<X, Y, C, I, D, B, V>>

\* C16: no iteration of Exec, and neither the call nor the return of Exec,
\* changes IndexX, IndexY, Carry, InterruptDisable, DecimalMode, Break or
\* Overflow; Reset makes them all 0, so they are 0 in every state reached
\* from Reset; and with IndexX = 0 LDA zero page,X loads the byte at the
\* address that is its operand byte, as LDA zero page does.
C16_RegisterFrame ==
    [][/\ (phase = "exec" \/ phase' = "exec") => UNCHANGED Untouched
       /\ phase' = "reset" => Untouched' = <<0, 0, 0, 0, 0, 0, 0>>
       /\ (phase' # "reset" /\ Untouched = <<0, 0, 0, 0, 0, 0, 0>>) =>
              Untouched' = <<0, 0, 0, 0, 0, 0, 0>>
       /\ (Iteration /\ Opcode = INS_LDA_ZPX /\ X = 0) =>
              A' = MemRead(Data, Operand1)]_vars

\* After a run that had set registers and flags, Reset and the loading of
\* 0xFFFC: LDA 0x42,X, the instruction has loaded the byte of 0x0042 and the
\* seven are 0.
C16_Witness ==
    /\ phase = "exec" /\ nExec = 2 /\ steps = 1
    /\ instruction = INS_LDA_ZPX /\ ProgramIn(Data, IndexedProgram)
    /\ A = 127 /\ A = MemRead(Data, 66)
    /\ Untouched = <<0, 0, 0, 0, 0, 0, 0>>

\* The iteration executes a JSR right after another JSR of the same call of
\* Exec.
SecondJSR ==
    /\ Iteration /\ Opcode = INS_JSR
    /\ steps >= 1 /\ instruction = INS_JSR

\* The StackPointer before the first of the two: one less than it is now.
FirstS == (SP + WordMod - 1) % WordMod

\* C17: of two JSRs executed one after the other, with StackPointer S before
\* the first, the second writes the low byte of its return address at
\* S + 1, where the first wrote the high byte of its own; afterwards the
\* first return address (the word memory held at S after the first JSR) can
\* be read from memory[S], memory[S + 1] only if its high byte equals that
\* low byte.
C17_OverlappingPushes ==
    [][SecondJSR =>
        /\ MemRead(Data', FirstS + 1) = LastByteOfInstruction % ByteMod
        /\ (WordAt(Data', FirstS) = WordAt(Data, FirstS)) =>
               MemRead(Data, FirstS + 1) = LastByteOfInstruction % ByteMod]_vars

\* The last two calls were WriteWord(budget, a, v) and then FetchWord with
\* the program counter at a.
WrittenThenFetched ==
    /\ Len(calls) >= 2
    /\ calls[Len(calls) - 1].fn = "WriteWord"
    /\ LastCall.fn = "FetchWord"
    /\ LastCall.pc = calls[Len(calls) - 1].args[1]

\* C18: for an address a in 0..65534 and a 16-bit value v, WriteWord(budget,
\* a, v) leaves v mod 256 in memory[a] and v div 256 in memory[a + 1], takes
\* 2 off the budget and changes no other byte; and a FetchWord that follows
\* with the program counter at a returns v.
C18_WordRoundTrip ==
    /\ [](WrittenThenFetched =>
             LastCall.data = calls[Len(calls) - 1].args[2])
    /\ [][Called("WriteWord") =>
             /\ ThisCall.args[1] \in 0 .. 65534
             /\ MemRead(Data', ThisCall.args[1]) = ThisCall.args[2] % 256
             /\ MemRead(Data', ThisCall.args[1] + 1) = ThisCall.args[2] \div 256
             /\ Spent = 2
             /\ SameBytes(Data, Data',
                          {ThisCall.args[1], ThisCall.args[1] + 1})
             /\ UNCHANGED <<cpu, out>>]_vars

\* 0xFF00 was written at 0x4242, where the program counter was, and the
\* FetchWord after it returned 0xFF00.
C18_Witness ==
    /\ WrittenThenFetched
    /\ calls[1].args = <<16962, 65280>>
    /\ LastCall.data = 65280
    /\ MemRead(Data, 16962) = 0 /\ MemRead(Data, 16963) = 255
    /\ PC = 16964

\* C19: in every state reached from Reset, Zero and Negative are not both
\* 1, and the Accumulator is 0 whenever Zero is 1; right after Reset the
\* Accumulator is 0 and Zero is 0.
C19_ZeroNegativeExclusive ==
    /\ ~(Z = 1 /\ N = 1)
    /\ (Z = 1 => A = 0)
    /\ (phase = "reset" => (A = 0 /\ Z = 0))

\* LDA 0x84 has loaded 0x80, setting Negative, and LDA #0x00 after it has
\* loaded 0: Zero is 1 and Negative is 0 again.
C19_Witness ==
    /\ phase = "exec" /\ steps = 2 /\ instruction = INS_LDA_IMM
    /\ ProgramIn(Data, ZeroPageProgram)
    /\ A = 0 /\ Z = 1 /\ N = 0

====
